---- MODULE Spec2Model ----
(***************************************************************************)
(* Model of app/notification.py: class Notifier.                           *)
(*                                                                         *)
(* A Notifier keeps self.last_analysis (the store) between calls of        *)
(* notify_all(new_analysis).  Python dicts and lists are objects: the      *)
(* store and the snapshot share the exchange subtrees, so the model keeps  *)
(* a heap of exchange subtrees and lets new_analysis and last_analysis     *)
(* map exchange names to heap identities.                                  *)
(***************************************************************************)
EXTENDS Integers, Sequences, FiniteSets, TLC

\* Number of notify_all calls explored.
MaxCycles == 3

---------------------------------------------------------------------------
\* Generic helpers

Range(f) == {f[x] : x \in DOMAIN f}

RECURSIVE Flatten(_)
Flatten(ss) == IF ss = <<>> THEN <<>> ELSE Head(ss) \o Flatten(Tail(ss))

\* The members of an ordered universe that are keys of a dict, in order.
KeysInOrder(order, keys) == SelectSeq(order, LAMBDA k : k \in keys)

EmptyDict == [k \in {} |-> {}]

---------------------------------------------------------------------------
\* Channels

\* The order in which notify_all calls the notify_* methods.
ChannelOrder == <<"slack", "discord", "twilio", "gmail", "telegram", "webhook">>

TextChannels == {"slack", "discord", "twilio", "gmail", "telegram"}

AllChannels == Range(ChannelOrder)

\* The keys of notifier_config[c]['required'] read by __init__.
RequiredFields(c) ==
    CASE c = "twilio"   -> {"key", "secret", "sender_number", "receiver_number"}
      [] c = "discord"  -> {"webhook", "username"}
      [] c = "slack"    -> {"webhook"}
      [] c = "gmail"    -> {"username", "password", "destination_emails"}
      [] c = "telegram" -> {"token", "chat_id"}
      [] c = "webhook"  -> {"url"}

\* Python truthiness of a configuration value: '' is falsy.
Falsy(val) == val = ""

\* The flag following one truthy value instead of being cleared by a falsy one.
validate_required_config_AnyValue(notifier, cfg) ==
    \E k \in DOMAIN cfg[notifier].required : ~Falsy(cfg[notifier].required[k])

\* _validate_required_config: every required value must be truthy.
validate_required_config(notifier, cfg) ==
    \A k \in DOMAIN cfg[notifier].required : ~Falsy(cfg[notifier].required[k])

---------------------------------------------------------------------------
\* Analysis data

\* Dict iteration order is insertion order; the upstream inserts in this order.
ExchangeOrder == <<"ex1", "ex2">>
MarketOrder == <<"m1", "m2">>
IndicatorOrder == <<"rsi">>

\* A row of a result frame.  The signal column holds a float.
Row(hot, cold) == [is_hot |-> hot, is_cold |-> cold,
                   rsi |-> [type |-> "float", num |-> 71]]

HotRow == Row(TRUE, FALSE)
ColdRow == Row(FALSE, TRUE)
NeutralRow == Row(FALSE, FALSE)
BothRow == Row(TRUE, TRUE)

\* An occurrence dict as the upstream builds it: no 'status' key.
Occurrence(cfg, result) == [config |-> cfg, result |-> result]

\* d['status'] = s on an occurrence dict.
SetStatus(d, s) ==
    [k \in (DOMAIN d) \cup {"status"} |-> IF k = "status" THEN s ELSE d[k]]

\* The slots (exchange, market, indicator, index) of an analysis tree `an`
\* (exchange -> market -> 'indicators' -> indicator -> list), in the order of
\* the four nested for loops of _message_templater.
SlotsOfList(an, e, m, i) ==
    [k \in 1..Len(an[e][m].indicators[i]) |-> <<e, m, i, k - 1>>]

SlotsOfMarket(an, e, m) ==
    Flatten([j \in 1..Len(KeysInOrder(IndicatorOrder, DOMAIN an[e][m].indicators)) |->
        SlotsOfList(an, e, m,
            KeysInOrder(IndicatorOrder, DOMAIN an[e][m].indicators)[j])])

SlotsOfExchange(an, e) ==
    Flatten([j \in 1..Len(KeysInOrder(MarketOrder, DOMAIN an[e])) |->
        SlotsOfMarket(an, e, KeysInOrder(MarketOrder, DOMAIN an[e])[j])])

SlotsOf(an) ==
    Flatten([j \in 1..Len(KeysInOrder(ExchangeOrder, DOMAIN an)) |->
        SlotsOfExchange(an, KeysInOrder(ExchangeOrder, DOMAIN an)[j])])

\* an[exchange][market]['indicators'][indicator][index]
At(an, slot) == an[slot[1]][slot[2]].indicators[slot[3]][slot[4] + 1]

\* Does the subscript chain an[exchange][market]['indicators'][indicator][index]
\* succeed?
HasSlot(an, slot) ==
    /\ slot[1] \in DOMAIN an
    /\ slot[2] \in DOMAIN an[slot[1]]
    /\ "indicators" \in DOMAIN an[slot[1]][slot[2]]
    /\ slot[3] \in DOMAIN an[slot[1]][slot[2]].indicators
    /\ slot[4] + 1 \in DOMAIN an[slot[1]][slot[2]].indicators[slot[3]]

---------------------------------------------------------------------------
\* Pure parts of _message_templater

\* analysis['result'].iloc[-1]
LastRow(result) == result[Len(result)]

\* format(value, '.8f') for a float, any other value unchanged.
FormatValue(v) ==
    IF v.type = "float" THEN [type |-> "str8f", num |-> v.num] ELSE v

\* The two tests in the other order: is_cold looked at first.
Classify_ColdFirst(latest_result_row) ==
    IF latest_result_row.is_cold THEN "cold"
    ELSE IF latest_result_row.is_hot THEN "hot"
    ELSE "neutral"

\* status = 'neutral'; if is_hot: 'hot'; elif is_cold: 'cold'
Classify(latest_result_row) ==
    IF latest_result_row.is_hot THEN "hot"
    ELSE IF latest_result_row.is_cold THEN "cold"
    ELSE "neutral"

\* The test of the alert branch left out: every row enters it.
AlertWorthy_Always(latest_result_row) == TRUE

\* if latest_result['is_hot'] or latest_result['is_cold']:
AlertWorthy(latest_result_row) ==
    latest_result_row.is_hot \/ latest_result_row.is_cold

\* try: last_status = self.last_analysis[...][index]['status']
\* except: last_status = str()
LastStatus(store, slot) ==
    IF HasSlot(store, slot) /\ "status" \in DOMAIN At(store, slot)
    THEN At(store, slot).status
    ELSE ""

\* The frequency test left out.
ShouldAlert_IgnoreFrequency(status, last_status, config) ==
    config.alert_enabled

\* The frequency test suppressing after any earlier alert, not only an equal one.
ShouldAlert_OnceAfterAny(status, last_status, config) ==
    LET by_frequency ==
            IF config.alert_frequency = "once" /\ last_status # ""
            THEN FALSE ELSE TRUE
    IN  IF ~config.alert_enabled THEN FALSE ELSE by_frequency

\* The equal-status test applied whatever the frequency.
ShouldAlert_AlwaysDedup(status, last_status, config) ==
    IF ~config.alert_enabled THEN FALSE ELSE last_status # status

\* An unknown last status treated as nothing to alert about.
ShouldAlert_NeedsPrior(status, last_status, config) ==
    LET by_frequency ==
            IF config.alert_frequency = "once" /\ last_status = status
            THEN FALSE ELSE last_status # ""
    IN  IF ~config.alert_enabled THEN FALSE ELSE by_frequency

\* The alert_enabled test left out.
ShouldAlert_IgnoreEnabled(status, last_status, config) ==
    IF config.alert_frequency = "once" /\ last_status = status
    THEN FALSE ELSE TRUE

\* should_alert after the frequency test and the alert_enabled test.
ShouldAlert(status, last_status, config) ==
    LET by_frequency ==
            IF config.alert_frequency = "once" /\ last_status = status
            THEN FALSE ELSE TRUE
    IN  IF ~config.alert_enabled THEN FALSE ELSE by_frequency

\* Templates are Jinja strings; three are modelled:
\*   T_status    "{{exchange}} {{market}} {{indicator}} {{indicator_number}}
\*                is {{status}} (was {{last_status}})"
\*   T_hot_only  "{% if status == 'hot' %}{{market}} is hot{% endif %} "
\*   T_strict    "{{ values.rsi.real }}": raises when values has no 'rsi'
\*   T_div       "{{ market }} {{ 100 // indicator_number }}": raises for the
\*               occurrence numbered 0
\* A text is a sequence of chunks; ws marks a chunk of whitespace only.
Templates == {"T_status", "T_hot_only", "T_strict", "T_div"}

Chunk(ws, ctx) ==
    [ws |-> ws, slot |-> <<ctx.exchange, ctx.market, ctx.indicator, ctx.indicator_number>>,
     status |-> ctx.status, last_status |-> ctx.last_status]

\* The exception render raises for the context, "" when it returns.
RenderError(template, ctx) ==
    IF template = "T_strict" /\ "rsi" \notin DOMAIN ctx.values THEN "UndefinedError"
    ELSE IF template = "T_div" /\ ctx.indicator_number = 0 THEN "ZeroDivisionError"
    ELSE ""

RenderRaises(template, ctx) == RenderError(template, ctx) # ""

\* message_template.render(values=..., exchange=..., ..., last_status=...)
Render(template, ctx) ==
    CASE template = "T_status"   -> <<Chunk(FALSE, ctx)>>
      [] template = "T_strict"   -> <<Chunk(FALSE, ctx)>>
      [] template = "T_div"      -> <<Chunk(FALSE, ctx)>>
      [] template = "T_hot_only" ->
            IF ctx.status = "hot" THEN <<Chunk(FALSE, ctx), Chunk(TRUE, ctx)>>
            ELSE <<Chunk(TRUE, ctx)>>

\* str.strip(): leading and trailing whitespace removed.
RECURSIVE LStrip(_)
LStrip(text) ==
    IF text # <<>> /\ Head(text).ws THEN LStrip(Tail(text)) ELSE text

RECURSIVE RStrip(_)
RStrip(text) ==
    IF text # <<>> /\ text[Len(text)].ws
    THEN RStrip(SubSeq(text, 1, Len(text) - 1)) ELSE text

Strip(text) == RStrip(LStrip(text))

\* if message: the strip left out.
ShouldSend_NonEmpty(message) == message # <<>>

\* if message.strip(): a non-empty string is truthy.
ShouldSend(message) == Strip(message) # <<>>

\* The operands of the merge swapped: {**new_analysis, **self.last_analysis}
DictMerge_OldWins(old, new) ==
    [e \in (DOMAIN old) \cup (DOMAIN new) |-> IF e \in DOMAIN old THEN old[e] ELSE new[e]]

\* {**self.last_analysis, **new_analysis}
DictMerge(old, new) ==
    [e \in (DOMAIN old) \cup (DOMAIN new) |-> IF e \in DOMAIN new THEN new[e] ELSE old[e]]

---------------------------------------------------------------------------
\* State

VARIABLES
    notifier_config,  \* self.notifier_config: channel -> [required, optional]
    configured,       \* self.<channel>_configured
    settings,         \* the upstream's indicator config per slot
    heap,             \* identity -> exchange subtree (market -> indicators -> list)
    new_analysis,     \* the dict passed to notify_all: exchange -> identity
    last_analysis,    \* self.last_analysis: exchange -> identity
    pc,               \* "idle", or the channel notify_all is about to notify
    cycle,            \* number of notify_all calls so far
    cur,              \* record of the running or last notify_all call
    prev,             \* record of the notify_all call before it
    last_fired,       \* slot -> status of the last alert that fired for it, "" if none
    run               \* slot -> the run of equal alert-worthy statuses it is in

vars == <<notifier_config, configured, settings, heap, new_analysis, last_analysis,
          pc, cycle, cur, prev, last_fired, run>>

\* self.last_analysis and new_analysis with the identities followed.
Store == [e \in DOMAIN last_analysis |-> heap[last_analysis[e]]]
New == [e \in DOMAIN new_analysis |-> heap[new_analysis[e]]]

Enabled == {c \in AllChannels : configured[c]}

\* notify_all calls the notify_* methods in ChannelOrder; each does nothing
\* unless its channel is configured.  ChannelFrom(i) is the first configured
\* channel at or after position i, "idle" when notify_all returns instead.
RECURSIVE ChannelFrom(_)
ChannelFrom(i) ==
    IF i > Len(ChannelOrder) THEN "idle"
    ELSE IF configured[ChannelOrder[i]] THEN ChannelOrder[i]
    ELSE ChannelFrom(i + 1)

NextPc(c) ==
    ChannelFrom(1 + CHOOSE j \in 1..Len(ChannelOrder) : ChannelOrder[j] = c)

---------------------------------------------------------------------------
\* Configurations and snapshots

Configs(signals) ==
    [signal : signals, alert_frequency : {"once", "always"}, alert_enabled : BOOLEAN]

\* A 'required' dict with every value set, and one with its first value empty.
RequiredSet(c) == [k \in RequiredFields(c) |-> "x"]
RequiredUnset(c) ==
    [k \in RequiredFields(c) |->
        IF k = (CHOOSE f \in RequiredFields(c) : TRUE) THEN "" ELSE "x"]

NotifierConfig(on, tpl) ==
    [c \in AllChannels |->
        [required |-> IF c \in on THEN RequiredSet(c) ELSE RequiredUnset(c),
         optional |-> [template |-> tpl[c]]]]

\* The last-row classification of a slot in a snapshot, "absent" without one.
StatusIn(an, slot) ==
    IF HasSlot(an, slot) /\ At(an, slot).result # <<>>
    THEN Classify(LastRow(At(an, slot).result))
    ELSE "absent"

\* The snapshot holding the markets `pairs`, each slot of them with result[slot].
MakeSnapshot(setts, pairs, result) ==
    [e \in {p[1] : p \in pairs} |->
        [m \in {p[2] : p \in {q \in pairs : q[1] = e}} |->
            [indicators |->
                [i \in {s[3] : s \in {t \in DOMAIN setts : t[1] = e /\ t[2] = m}} |->
                    [k \in 1..Cardinality({t \in DOMAIN setts :
                                              t[1] = e /\ t[2] = m /\ t[3] = i}) |->
                        Occurrence(setts[<<e, m, i, k - 1>>], result[<<e, m, i, k - 1>>])]]]]]

Snapshots(setts, results) ==
    LET allpairs == {<<s[1], s[2]>> : s \in DOMAIN setts}
    IN  UNION {
          {MakeSnapshot(setts, pairs, result) :
              result \in [{s \in DOMAIN setts : <<s[1], s[2]>> \in pairs} -> results]}
          : pairs \in SUBSET allpairs}

---------------------------------------------------------------------------
\* Construction

NoCall ==
    [input |-> EmptyDict, prior |-> EmptyDict, startEmpty |-> TRUE,
     ids0 |-> EmptyDict, store0 |-> EmptyDict,
     rendered |-> [c \in TextChannels |-> {}], text |-> [c \in TextChannels |-> <<>>],
     notified |-> {}, returned |-> {}, failed |-> <<>>,
     leaked |-> {}, changes |-> 0, raised |-> ""]

\* What a later call's checks need of a finished call.
Summary(call) ==
    [status |-> [s \in DOMAIN settings |-> StatusIn(call.input, s)],
     rendered |-> call.rendered, startEmpty |-> call.startEmpty,
     raised |-> call.raised]

NoRun == [status |-> "absent", n |-> 0, msgs |-> 0]

\* Notifier.__init__ with the notifier config `cfg`; `setts` is the indicator
\* configuration the upstream analyses with.
Construct(cfg, setts) ==
    /\ notifier_config = cfg
    /\ configured = [c \in AllChannels |-> validate_required_config(c, cfg)]
    /\ settings = setts
    /\ last_analysis = EmptyDict
    /\ new_analysis = EmptyDict
    /\ heap = EmptyDict
    /\ pc = "idle"
    /\ cycle = 0
    /\ cur = NoCall
    /\ prev = [status |-> [s \in DOMAIN setts |-> "absent"], rendered |-> NoCall.rendered,
               startEmpty |-> TRUE, raised |-> ""]
    /\ last_fired = [s \in DOMAIN setts |-> ""]
    /\ run = [s \in DOMAIN setts |-> NoRun]

---------------------------------------------------------------------------
\* notify_all

\* The run a slot is in once a cycle presents `status` for it: a run is a
\* maximal sequence of consecutive cycles presenting the same alert-worthy
\* status, begun at the first cycle or after a cycle presenting another
\* status; n counts its cycles, msgs the messages rendered in it.
NextRun(r, status, first) ==
    IF status \notin {"hot", "cold"}
    THEN [status |-> status, n |-> 0, msgs |-> 0]
    ELSE IF r.status = status /\ r.n > 0
         THEN [r EXCEPT !.n = r.n + 1]
         ELSE IF r.status \in {"absent", "untracked"} /\ ~first
              THEN [status |-> "untracked", n |-> 0, msgs |-> 0]
              ELSE [status |-> status, n |-> 1, msgs |-> 0]

\* The caller passes a fresh snapshot: its exchange subtrees are new objects.
NotifyAll(snapshot) ==
    /\ pc = "idle"
    /\ cycle < MaxCycles
    /\ LET fresh == [e \in DOMAIN snapshot |-> <<cycle + 1, e>>]
       IN  /\ new_analysis' = fresh
           /\ heap' = [id \in Range(last_analysis) \cup Range(fresh) |->
                          IF id[1] = cycle + 1 THEN snapshot[id[2]] ELSE heap[id]]
    /\ cycle' = cycle + 1
    /\ pc' = ChannelFrom(1)
    /\ prev' = Summary(cur)
    /\ cur' = [input |-> snapshot,
               prior |-> [s \in DOMAIN settings |-> LastStatus(Store, s)],
               startEmpty |-> (DOMAIN last_analysis = {}),
               ids0 |-> last_analysis, store0 |-> Store,
               rendered |-> [c \in TextChannels |-> {}],
               text |-> [c \in TextChannels |-> <<>>],
               notified |-> {}, returned |-> {}, failed |-> <<>>,
               leaked |-> {}, changes |-> 0, raised |-> ""]
    /\ run' = [s \in DOMAIN settings |->
                  NextRun(run[s], StatusIn(snapshot, s), cycle = 0)]
    /\ UNCHANGED <<notifier_config, configured, settings, last_analysis, last_fired>>

\* One pass of the innermost loop body of _message_templater for `slot`.
\* `loc` holds what the call has changed so far: the heap, the locals
\* latest_result (<<>> while unbound, else <<row>>) and new_message, the
\* exception raised ("" while none), and the bookkeeping of the renders.
\* `ids` is new_analysis, `last` is self.last_analysis.
TemplaterPass(loc, slot, ids, last, template) ==
    LET new == [e \in DOMAIN ids |-> loc.heap[ids[e]]]
        store == [e \in DOMAIN last |-> loc.heap[last[e]]]
        analysis == At(new, slot)
        signal == analysis.config.signal
        latest == IF signal # {} /\ analysis.result # <<>>
                  THEN <<LastRow(analysis.result)>> ELSE loc.latest_result
        values == [sg \in signal |-> FormatValue(LastRow(analysis.result)[sg])]
        status == Classify(latest[1])
        last_status == LastStatus(store, slot)
        marked == SetStatus(analysis, status)
        ctx == [values |-> values, exchange |-> slot[1], market |-> slot[2],
                indicator |-> slot[3], indicator_number |-> slot[4],
                analysis |-> marked, status |-> status, last_status |-> last_status]
        written == [loc.heap EXCEPT
                      ![ids[slot[1]]][slot[2]].indicators[slot[3]][slot[4] + 1] = marked]
        \* self.last_analysis as it reads right after line 267
        seen == LastStatus([e \in DOMAIN last |-> written[last[e]]], slot)
        leaked == IF seen # last_status THEN loc.leaked \cup {slot} ELSE loc.leaked
    IN  IF loc.raised # "" THEN loc
        ELSE IF signal # {} /\ analysis.result = <<>>
        THEN [loc EXCEPT !.raised = "IndexError"]
        ELSE IF signal # {} /\ ~(signal \subseteq DOMAIN LastRow(analysis.result))
        THEN [loc EXCEPT !.raised = "KeyError"]
        ELSE IF latest = <<>>
        THEN [loc EXCEPT !.raised = "UnboundLocalError"]
        ELSE IF ~(AlertWorthy(latest[1])
                  /\ ShouldAlert(status, last_status, analysis.config))
        THEN [loc EXCEPT !.latest_result = latest]
        ELSE IF RenderRaises(template, ctx)
        THEN [loc EXCEPT !.latest_result = latest, !.heap = written,
                         !.leaked = leaked,
                         !.fired[slot] = status, !.failed = slot,
                         !.raised = RenderError(template, ctx)]
        ELSE [loc EXCEPT !.latest_result = latest, !.heap = written,
                         !.leaked = leaked,
                         !.fired[slot] = status,
                         !.new_message = @ \o Render(template, ctx),
                         !.rendered = @ \cup {slot},
                         !.msgs[slot] = @ + 1]

\* The four nested loops of _message_templater over the slots still to visit.
RECURSIVE TemplaterLoop(_, _, _, _, _)
TemplaterLoop(loc, slots, ids, last, template) ==
    IF slots = <<>> THEN loc
    ELSE TemplaterLoop(TemplaterPass(loc, Head(slots), ids, last, template),
                       Tail(slots), ids, last, template)

\* if not self.last_analysis: self.last_analysis = new_analysis
\* (the same dict, not a copy).
StoreAtEntry == IF DOMAIN last_analysis = {} THEN new_analysis ELSE last_analysis

\* _message_templater(new_analysis, template) up to its last loop pass.
message_templater(template) ==
    TemplaterLoop([heap |-> heap, latest_result |-> <<>>, new_message |-> <<>>,
                   raised |-> "", failed |-> <<>>, leaked |-> {},
                   fired |-> last_fired, rendered |-> {},
                   msgs |-> [s \in DOMAIN run |-> 0]],
                  SlotsOf(New), new_analysis, StoreAtEntry, template)

\* notify_<c> for a configured text channel c: the message is built, the store
\* is merged, and a message that strips to something is sent.  An exception in
\* the loops leaves notify_all before the merge.
NotifyText(c) ==
    /\ pc = c
    /\ c \in TextChannels
    /\ LET loc == message_templater(notifier_config[c].optional.template)
           last == IF loc.raised # "" THEN StoreAtEntry
                   ELSE DictMerge(StoreAtEntry, new_analysis)
           changed == IF [e \in DOMAIN last |-> loc.heap[last[e]]] # Store THEN 1 ELSE 0
       IN  /\ heap' = loc.heap
           /\ last_fired' = loc.fired
           /\ run' = [s \in DOMAIN run |-> [run[s] EXCEPT !.msgs = @ + loc.msgs[s]]]
           /\ IF loc.raised # ""
              THEN /\ last_analysis' = StoreAtEntry
                   /\ cur' = [cur EXCEPT !.raised = loc.raised,
                                         !.leaked = @ \cup loc.leaked,
                                         !.changes = @ + changed,
                                         !.failed = IF loc.failed = <<>> THEN <<>>
                                                    ELSE <<c, loc.failed>>,
                                         !.rendered[c] = loc.rendered]
                   /\ pc' = "idle"
              ELSE /\ last_analysis' = DictMerge(StoreAtEntry, new_analysis)
                   /\ cur' = [cur EXCEPT !.rendered[c] = loc.rendered,
                                         !.leaked = @ \cup loc.leaked,
                                         !.changes = @ + changed,
                                         !.text[c] = loc.new_message,
                                         !.returned = @ \cup {c},
                                         !.notified = IF ShouldSend(loc.new_message)
                                                      THEN @ \cup {c} ELSE @]
                   /\ pc' = NextPc(c)
    /\ UNCHANGED <<notifier_config, configured, settings, new_analysis, cycle, prev>>

\* new_analysis[exchange][market][indicator_type][indicator][index] =
\*     analysis['result'].to_dict(orient='records')[-1], slot by slot.
RECURSIVE Flattened(_, _, _)
Flattened(h, ids, slots) ==
    IF slots = <<>> THEN h
    ELSE LET slot == Head(slots)
             path == h[ids[slot[1]]][slot[2]].indicators[slot[3]]
         IN  Flattened(
               [h EXCEPT ![ids[slot[1]]][slot[2]].indicators[slot[3]][slot[4] + 1] =
                             LastRow(path[slot[4] + 1].result)],
               ids, Tail(slots))

\* The slots before the first one whose result has no row.
RECURSIVE UntilEmpty(_, _)
UntilEmpty(an, slots) ==
    IF slots = <<>> \/ At(an, Head(slots)).result = <<>> THEN <<>>
    ELSE <<Head(slots)>> \o UntilEmpty(an, Tail(slots))

NotifyWebhook ==
    /\ pc = "webhook"
    /\ LET slots == SlotsOf(New)
           done == UntilEmpty(New, slots)
           flat == Flattened(heap, new_analysis, done)
           changed == IF [e \in DOMAIN last_analysis |-> flat[last_analysis[e]]] # Store
                      THEN 1 ELSE 0
       IN  /\ heap' = flat
           /\ IF done # slots
              THEN cur' = [cur EXCEPT !.raised = "IndexError", !.changes = @ + changed]
              ELSE cur' = [cur EXCEPT !.notified = @ \cup {"webhook"},
                                      !.returned = @ \cup {"webhook"},
                                      !.changes = @ + changed]
    /\ pc' = "idle"
    /\ UNCHANGED <<notifier_config, configured, settings, new_analysis, last_analysis,
                   cycle, prev, last_fired, run>>

Steps ==
    \/ \E c \in TextChannels : NotifyText(c)
    \/ NotifyWebhook

---------------------------------------------------------------------------
\* Specification over snapshots that meet the data model: every occurrence
\* has rows and names its signal column.

SlotA == <<"ex1", "m1", "rsi", 0>>
SlotB == <<"ex2", "m1", "rsi", 0>>

Results == {<<NeutralRow, HotRow>>, <<HotRow, ColdRow>>, <<ColdRow, NeutralRow>>}

\* SlotA runs with any settings, SlotB with the settings the upstream ships.
DefaultConfig == [signal |-> {"rsi"}, alert_frequency |-> "once", alert_enabled |-> TRUE]

SettingsChoices ==
    {[s \in {SlotA, SlotB} |-> IF s = SlotA THEN cfg ELSE DefaultConfig] :
        cfg \in Configs({{"rsi"}})}

DefaultTemplates == [c \in AllChannels |-> "T_status"]

ChannelChoices ==
    {NotifierConfig({"slack"}, DefaultTemplates),
     NotifierConfig({"slack"}, [DefaultTemplates EXCEPT !["slack"] = "T_hot_only"]),
     NotifierConfig({"discord", "telegram"},
                    [DefaultTemplates EXCEPT !["discord"] = "T_hot_only"]),
     NotifierConfig({"slack", "webhook"}, DefaultTemplates)}

Init == \E cfg \in ChannelChoices, setts \in SettingsChoices : Construct(cfg, setts)

Next ==
    \/ \E snapshot \in Snapshots(settings, Results) : NotifyAll(snapshot)
    \/ Steps

Spec == Init /\ [][Next]_vars

---------------------------------------------------------------------------
\* Specification over any snapshot: an occurrence may have no row or name no
\* signal, and a template may raise.  Two occurrences share one indicator list.

SlotC == <<"ex1", "m1", "rsi", 1>>

AnyResults == {<<NeutralRow, HotRow>>, <<ColdRow, NeutralRow>>, <<>>}

AnyConfigs ==
    {DefaultConfig,
     [DefaultConfig EXCEPT !.signal = {}],
     [DefaultConfig EXCEPT !.alert_frequency = "always"]}

AnySettingsChoices == [{SlotA, SlotC} -> AnyConfigs]

AnyChannelChoices ==
    {NotifierConfig({"slack"}, DefaultTemplates),
     NotifierConfig({"slack", "telegram"},
                    [DefaultTemplates EXCEPT !["slack"] = "T_div",
                                             !["telegram"] = "T_strict"]),
     NotifierConfig({"slack", "webhook"}, DefaultTemplates)}

InitAny ==
    \E cfg \in AnyChannelChoices, setts \in AnySettingsChoices : Construct(cfg, setts)

NextAny ==
    \/ \E snapshot \in Snapshots(settings, AnyResults) : NotifyAll(snapshot)
    \/ Steps

SpecAny == InitAny /\ [][NextAny]_vars

---------------------------------------------------------------------------
\* Specification over snapshots that meet the data model and hold two markets
\* of one exchange and one market of another, each of which a snapshot may omit.

SlotM == <<"ex1", "m2", "rsi", 0>>

MergeResults == {<<NeutralRow, HotRow>>, <<HotRow, NeutralRow>>}

MergeSettings == [s \in {SlotA, SlotM, SlotB} |-> DefaultConfig]

MergeChannelChoices ==
    {NotifierConfig({"slack"}, DefaultTemplates),
     NotifierConfig({"slack", "webhook"}, DefaultTemplates)}

InitMerge == \E cfg \in MergeChannelChoices : Construct(cfg, MergeSettings)

NextMerge ==
    \/ \E snapshot \in Snapshots(settings, MergeResults) : NotifyAll(snapshot)
    \/ Steps

SpecMerge == InitMerge /\ [][NextMerge]_vars

---------------------------------------------------------------------------
\* Specification over one occurrence whose last row takes each of the four
\* combinations of is_hot and is_cold, after a first row with the opposite.

ClassifyResults == {<<Row(~hot, ~cold), Row(hot, cold)>> : hot \in BOOLEAN, cold \in BOOLEAN}

ClassifySettingsChoices == [{SlotA} -> Configs({{"rsi"}})]

InitClassify ==
    \E cfg \in MergeChannelChoices, setts \in ClassifySettingsChoices :
        Construct(cfg, setts)

NextClassify ==
    \/ \E snapshot \in Snapshots(settings, ClassifyResults) : NotifyAll(snapshot)
    \/ Steps

SpecClassify == InitClassify /\ [][NextClassify]_vars

---------------------------------------------------------------------------
\* Vocabulary of the properties

AlertStatuses == {"hot", "cold"}

Slots == DOMAIN settings

\* notify_all has returned at least once and is not running.
Finished == pc = "idle" /\ cycle >= 1 /\ cur.raised = ""

\* Both of the last two notify_all calls have returned.
FinishedTwo == Finished /\ cycle >= 2 /\ prev.raised = ""

EnabledText == Enabled \cap TextChannels

\* The only enabled channel is the text channel c.
OnlyChannel(c) == c \in TextChannels /\ Enabled = {c}

\* The first enabled text channel in notify_all's order.
FirstText ==
    ChannelOrder[CHOOSE i \in 1..Len(ChannelOrder) :
        /\ ChannelOrder[i] \in EnabledText
        /\ \A j \in 1..(i - 1) : ChannelOrder[j] \notin EnabledText]

OnceEnabled(s) ==
    settings[s].alert_frequency = "once" /\ settings[s].alert_enabled

AlwaysEnabled(s) ==
    settings[s].alert_frequency = "always" /\ settings[s].alert_enabled

\* The status the running or last cycle presents for s.
Presented(s) == StatusIn(cur.input, s)

\* The last two cycles present the same alert-worthy status for s.
SameAlertTwice(s) ==
    Presented(s) \in AlertStatuses /\ prev.status[s] = Presented(s)

---------------------------------------------------------------------------
\* C1: with one text channel as the only enabled channel and the store empty
\* before the first of two consecutive cycles, a 'once' occurrence with
\* alert_enabled that presents the same alert-worthy status in both cycles is
\* rendered in the first cycle and not in the second; when every occurrence
\* is 'once' and presents in the second cycle what it presented in the first,
\* the second cycle's text is empty.
C1_OnceSameStatusTwice ==
    \A c \in TextChannels :
        (FinishedTwo /\ OnlyChannel(c) /\ prev.startEmpty) =>
            /\ \A s \in Slots :
                  (OnceEnabled(s) /\ SameAlertTwice(s)) =>
                      (s \in prev.rendered[c] /\ s \notin cur.rendered[c])
            /\ (\A s \in Slots : /\ settings[s].alert_frequency = "once"
                                 /\ prev.status[s] = Presented(s))
                  => cur.text[c] = <<>>

W_C1 ==
    \E c \in TextChannels, s \in Slots :
        /\ FinishedTwo /\ OnlyChannel(c) /\ prev.startEmpty
        /\ OnceEnabled(s) /\ SameAlertTwice(s)
        /\ s \in prev.rendered[c]
        /\ cur.text[c] = <<>>

\* C2: with one text channel as the only enabled channel, a 'once' occurrence
\* with alert_enabled that has presented the same alert-worthy status for
\* n >= 1 consecutive cycles has had exactly one message rendered in them.
C2_OneMessagePerRun ==
    \A c \in TextChannels, s \in Slots :
        (Finished /\ OnlyChannel(c) /\ OnceEnabled(s) /\ run[s].n >= 1) =>
            run[s].msgs = 1

\* C3: after a cycle in which an occurrence is neutral (text channels only),
\* its stored last status is still the status of the last alert that fired
\* for it.
C3_NeutralKeepsStoredStatus ==
    \A s \in Slots :
        (Finished /\ EnabledText = Enabled /\ Presented(s) = "neutral") =>
            LastStatus(Store, s) = last_fired[s]

\* C4: in one cycle an occurrence is rendered into the text of one enabled
\* text channel if and only if it is rendered into the text of every other.
C4_ChannelsAgree ==
    \A c1 \in EnabledText, c2 \in EnabledText, s \in Slots :
        Finished => (s \in cur.rendered[c1] <=> s \in cur.rendered[c2])

\* C5: with one text channel enabled, a 'once' occurrence with alert_enabled
\* whose alert-worthy status differs from the alert-worthy status of the
\* previous cycle is rendered in this cycle too; with the store empty before
\* the previous cycle, it was rendered there as well (two messages).
C5_OnceChangedStatus ==
    \A c \in TextChannels, s \in Slots :
        (/\ FinishedTwo /\ EnabledText = {c} /\ OnceEnabled(s)
         /\ Presented(s) \in AlertStatuses
         /\ prev.status[s] \in AlertStatuses
         /\ prev.status[s] # Presented(s)) =>
            /\ s \in cur.rendered[c]
            /\ prev.startEmpty => s \in prev.rendered[c]

W_C5 ==
    \E c \in TextChannels, s \in Slots :
        /\ FinishedTwo /\ EnabledText = {c} /\ OnceEnabled(s)
        /\ prev.startEmpty
        /\ prev.status[s] = "hot" /\ Presented(s) = "cold"
        /\ cur.prior[s] = "hot"
        /\ s \in prev.rendered[c] /\ s \in cur.rendered[c]

\* C6: an 'always' occurrence with alert_enabled is rendered, in every enabled
\* text channel, in every cycle whose last row is hot or cold.
C6_AlwaysRenders ==
    \A c \in EnabledText, s \in Slots :
        (Finished /\ AlwaysEnabled(s) /\ Presented(s) \in AlertStatuses) =>
            s \in cur.rendered[c]

W_C6 ==
    \E c \in EnabledText, s \in Slots :
        /\ FinishedTwo /\ AlwaysEnabled(s) /\ SameAlertTwice(s)
        /\ cur.prior[s] = Presented(s)
        /\ s \in prev.rendered[c] /\ s \in cur.rendered[c]

\* C7: an occurrence with alert_enabled whose last status is looked up as ''
\* when the cycle starts and whose last row is hot or cold is rendered in
\* that cycle (by the first enabled text channel), under 'once' and 'always'.
C7_FirstObservationRenders ==
    \A s \in Slots :
        (/\ Finished /\ EnabledText # {}
         /\ settings[s].alert_enabled
         /\ cur.prior[s] = ""
         /\ Presented(s) \in AlertStatuses) =>
            s \in cur.rendered[FirstText]

W_C7 ==
    \E s \in Slots :
        /\ Finished /\ cycle = 1 /\ EnabledText # {}
        /\ OnceEnabled(s)
        /\ cur.prior[s] = "" /\ Presented(s) \in AlertStatuses
        /\ s \in cur.rendered[FirstText]

C9_DisabledNeverAlerts ==
    \A s \in Slots :
        ~settings[s].alert_enabled =>
            /\ \A c \in TextChannels : s \notin cur.rendered[c]
            /\ last_fired[s] = ""
            /\ HasSlot(New, s) => "status" \notin DOMAIN At(New, s)
            /\ LastStatus(Store, s) = ""

W_C9 ==
    \E s \in Slots :
        /\ Finished /\ EnabledText # {}
        /\ ~settings[s].alert_enabled
        /\ settings[s].alert_frequency = "always"
        /\ Presented(s) = "hot"
        /\ s \notin cur.rendered[FirstText]

\* C10 as claimed: a text channel's notify is invoked in a cycle if and only
\* if the channel is enabled and its text for the cycle is not empty.
C10_SentIffNonEmpty ==
    \A c \in TextChannels :
        Finished => (c \in cur.notified <=> (configured[c] /\ cur.text[c] # <<>>))

\* Some chunk of the text is not whitespace.
HasInk(text) == \E i \in 1..Len(text) : ~text[i].ws

\* C10 as amended: a text channel's notify is invoked in a cycle if and only
\* if the channel is enabled and its text for the cycle has a character that
\* is not whitespace; a channel no occurrence fires for is not notified.
C10_SentIffNotBlank ==
    \A c \in TextChannels :
        Finished =>
            /\ c \in cur.notified <=> (configured[c] /\ HasInk(cur.text[c]))
            /\ cur.rendered[c] = {} => c \notin cur.notified

W_C10 ==
    \E c \in EnabledText, d \in EnabledText :
        /\ Finished
        /\ cur.rendered[c] # {} /\ ~HasInk(cur.text[c]) /\ c \notin cur.notified
        /\ d \in cur.notified

\* C11: a channel is configured if and only if every value of its 'required'
\* configuration is there and not empty; a channel that is not configured is
\* never the channel being notified, gets no text and is never notified.
C11_EnabledIffRequired ==
    \A c \in AllChannels :
        /\ configured[c] <=>
              \A k \in RequiredFields(c) :
                  /\ k \in DOMAIN notifier_config[c].required
                  /\ notifier_config[c].required[k] # ""
        /\ ~configured[c] =>
              /\ pc # c
              /\ c \notin cur.notified
              /\ c \in TextChannels => (cur.rendered[c] = {} /\ cur.text[c] = <<>>)

W_C11 ==
    \E c \in AllChannels, d \in TextChannels :
        /\ Finished /\ d \in cur.notified
        /\ ~configured[c] /\ c \notin cur.notified
        /\ \E k \in RequiredFields(c) : notifier_config[c].required[k] = ""
        /\ \E k \in RequiredFields(c) : notifier_config[c].required[k] # ""

\* C12: after a cycle in which a text channel merged, every exchange the
\* snapshot lacks has in the store the subtree it had before the cycle,
\* unchanged, and every exchange the snapshot holds has in the store the
\* snapshot's own subtree with exactly the snapshot's markets: a market of the
\* earlier store that the snapshot omits under that exchange is gone.
C12_MergeByExchange ==
    (Finished /\ EnabledText # {}) =>
        /\ DOMAIN last_analysis = (DOMAIN cur.ids0) \cup (DOMAIN cur.input)
        /\ \A e \in (DOMAIN cur.ids0) \ (DOMAIN cur.input) :
              /\ last_analysis[e] = cur.ids0[e]
              /\ Store[e] = cur.store0[e]
        /\ \A e \in DOMAIN cur.input :
              /\ last_analysis[e] = new_analysis[e]
              /\ DOMAIN Store[e] = DOMAIN cur.input[e]
              /\ \A s \in Slots :
                    (s[1] = e /\ s[2] \notin DOMAIN cur.input[e]) => ~HasSlot(Store, s)

\* A stored market with a stored status is dropped by a snapshot that holds
\* its exchange without it, while another exchange the snapshot lacks stays.
W_C12 ==
    \E s \in Slots, e \in DOMAIN cur.store0 :
        /\ Finished /\ EnabledText # {}
        /\ HasSlot(cur.store0, s) /\ cur.prior[s] = "hot"
        /\ s[1] \in DOMAIN cur.input /\ s[2] \notin DOMAIN cur.input[s[1]]
        /\ ~HasSlot(Store, s)
        /\ e \notin DOMAIN cur.input /\ Store[e] = cur.store0[e]

\* The text holds a chunk rendered for the slot s.
InText(text, s) == \E i \in 1..Len(text) : text[i].slot = s

\* Every occurrence of the running or last cycle has rows and names a signal.
WellFormedCycle ==
    \A t \in Slots :
        /\ settings[t].signal # {}
        /\ HasSlot(cur.input, t) => At(cur.input, t).result # <<>>

\* C13: when render fails for the occurrence s in the text channel c (all
\* occurrences of the cycle having rows and a signal), every other occurrence
\* of the cycle that should alert ('always', alert_enabled, last row hot or
\* cold) is in the text of c, every enabled channel's notify_* has returned,
\* and the store holds the snapshot's subtree of every exchange of the
\* snapshot.
C13_RenderErrorIsolated ==
    \A c \in TextChannels, s \in Slots :
        (pc = "idle" /\ cycle >= 1 /\ WellFormedCycle /\ cur.failed = <<c, s>>) =>
            /\ \A t \in Slots \ {s} :
                  (AlwaysEnabled(t) /\ Presented(t) \in AlertStatuses) =>
                      InText(cur.text[c], t)
            /\ cur.returned = Enabled
            /\ \A e \in DOMAIN cur.input :
                  e \in DOMAIN last_analysis /\ last_analysis[e] = new_analysis[e]

\* C14: once a cycle has ended with an exception (all its occurrences having
\* rows and a signal), the store is what it was when the cycle started: the
\* same exchanges with the same subtrees, and for every occurrence the last
\* status read from it is the one read at the start of the cycle.
C14_ErrorLeavesStore ==
    (pc = "idle" /\ cycle >= 1 /\ WellFormedCycle /\ cur.raised # "") =>
        /\ last_analysis = cur.ids0
        /\ Store = cur.store0
        /\ \A s \in Slots : LastStatus(Store, s) = cur.prior[s]

\* C15: in a cycle that has ended and whose snapshot holds an occurrence s
\* without rows (every occurrence naming a signal), no IndexError was raised,
\* s is in no text and has no status, and every other occurrence that should
\* alert ('always', alert_enabled, last row hot or cold) is in the text of
\* every enabled text channel unless its own render failed.
C15_EmptyResultSkipped ==
    \A s \in Slots :
        (/\ pc = "idle" /\ cycle >= 1
         /\ \A t \in Slots : settings[t].signal # {}
         /\ HasSlot(cur.input, s) /\ At(cur.input, s).result = <<>>) =>
            /\ cur.raised # "IndexError"
            /\ \A c \in TextChannels : s \notin cur.rendered[c]
            /\ "status" \notin DOMAIN At(New, s)
            /\ \A t \in Slots \ {s}, c \in EnabledText :
                  (/\ AlwaysEnabled(t) /\ Presented(t) \in AlertStatuses
                   /\ cur.failed = <<>>) => InText(cur.text[c], t)

\* C16: in every cycle no status written while the occurrences are evaluated
\* reads back from the store before the merge, and the steps of the cycle
\* change the store at most once, however many channels are enabled.
C16_StoreChangedOnce ==
    cycle >= 1 => (cur.leaked = {} /\ cur.changes <= 1)

\* C17: with text channels only, the snapshot the caller passed is, during and
\* after the cycle, what it was when notify_all was called: no occurrence of
\* it has gained a status.
C17_SnapshotUntouched ==
    (cycle >= 1 /\ Enabled = EnabledText) =>
        /\ New = cur.input
        /\ \A s \in Slots : HasSlot(New, s) => "status" \notin DOMAIN At(New, s)

\* C18: with the webhook channel and a text channel enabled, after a cycle
\* the store still holds the status of every occurrence that fired in it,
\* and a 'once' occurrence that fired in the previous cycle and presents the
\* same alert-worthy status in this one is not rendered again.
C18_WebhookKeepsStore ==
    \A c \in EnabledText, s \in Slots :
        ("webhook" \in Enabled /\ Finished) =>
            /\ s \in cur.rendered[c] => LastStatus(Store, s) = Presented(s)
            /\ (/\ FinishedTwo /\ OnceEnabled(s) /\ SameAlertTwice(s)
                /\ s \in prev.rendered[c]) => s \notin cur.rendered[c]

\* C19: whatever the signal lists, the status written for an occurrence that
\* has rows, and the status rendered for it into a text, is the
\* classification of that occurrence's own last row.
C19_StatusFromOwnRow ==
    /\ \A s \in Slots :
          (/\ Presented(s) # "absent"
           /\ HasSlot(New, s) /\ "status" \in DOMAIN At(New, s)) =>
              At(New, s).status = Presented(s)
    /\ \A c \in TextChannels : \A i \in 1..Len(cur.text[c]) :
          Presented(cur.text[c][i].slot) # "absent" =>
              cur.text[c][i].status = Presented(cur.text[c][i].slot)

\* C20: once slack has built its text for a cycle (and before the webhook
\* rewrites the snapshot), for an occurrence whose last row has is_hot = h and
\* is_cold = k, with `want` hot when h, cold when k and not h, neutral when
\* neither: the occurrence was rendered exactly when alert_enabled holds, want
\* is hot or cold, and not ('once' and the stored last status is want); every
\* chunk rendered for it carries the status want; and if rendered, the status
\* written into the snapshot and read back from the store is want.
C20_Classification ==
    \A s \in Slots :
        (/\ cycle >= 1 /\ "slack" \in cur.returned /\ "webhook" \notin cur.returned
         /\ HasSlot(cur.input, s)) =>
            LET row == LastRow(At(cur.input, s).result)
                want == IF row.is_hot THEN "hot"
                        ELSE IF row.is_cold THEN "cold" ELSE "neutral"
                text == cur.text["slack"]
            IN  /\ s \in cur.rendered["slack"] <=>
                      /\ settings[s].alert_enabled
                      /\ want \in {"hot", "cold"}
                      /\ ~(settings[s].alert_frequency = "once" /\ cur.prior[s] = want)
                /\ \A i \in 1..Len(text) : text[i].slot = s => text[i].status = want
                /\ s \in cur.rendered["slack"] =>
                      /\ At(New, s).status = want
                      /\ LastStatus(Store, s) = want

\* A last row with both booleans true is rendered and stored as hot, and the
\* cycle before, hot alone, was stored as hot too: 'once' keeps it to the
\* 'always' occurrences.
W_C20 ==
    \E s \in Slots :
        /\ Finished /\ cycle >= 2 /\ Enabled = {"slack"} /\ HasSlot(cur.input, s)
        /\ LastRow(At(cur.input, s).result) = BothRow
        /\ cur.prior[s] = "hot"
        /\ s \in cur.rendered["slack"]
        /\ cur.text["slack"][1].status = "hot"
        /\ LastStatus(Store, s) = "hot"

====
